---- MODULE Spec2Model ----
(***************************************************************************)
(* A model of the fcp crate (src/src/lib.rs): FcpConnection, its connect / *)
(* disconnect / send_message / recv_message methods and its Drop, and the  *)
(* FcpMessage wire codec (to_field_set, and the decoding loop of           *)
(* recv_message), against a TCP peer that sends bytes of its own choosing. *)
(* With it, the Display of error::Error, and main with parse_arguments     *)
(* (src/src/main.rs), each under a specification of its own.               *)
(*                                                                         *)
(* A string is a sequence of one-character strings; a HashMap is a         *)
(* function from its keys to its values; an Option is a set of at most one *)
(* element ({} is None).                                                   *)
(***************************************************************************)
EXTENDS Naturals, Sequences, FiniteSets, TLC

VARIABLES
    stream,      \* FcpConnection.stream: {} (None) or {id} (Some(Box<TcpStream>))
    dropped,     \* TRUE once the FcpConnection has gone out of scope
    pc,          \* where the calling thread is: "idle" or inside a call
    op,          \* the public method the caller is in: "connect", "recv", "none"
    client_name, \* connect's argument while connect runs
    rbuf,        \* recv_message: the BufReader's buffered, not yet consumed bytes
    line,        \* recv_message: the bytes read_line has appended to its String
    message,     \* recv_message: the FcpMessage built so far
    io,          \* the stream operations of the call in progress, in order
    last,        \* the call that returned last: method, argument, result, its io
    prev,        \* the method and result of the call that returned before it
    connectCalled, \* TRUE once connect has been called
    handshaken,  \* TRUE once a connect has returned Ok
    live,        \* ids of the TcpStreams that are open (not yet dropped)
    opened,      \* how many TcpStreams connect has opened so far
    inbuf,       \* bytes the peer has sent on the held stream, not yet read
    net,         \* the held stream's connection: "open", "peer_closed", "reset"
    shut,        \* TRUE once shutdown(Both) has succeeded on the held stream
    peerTodo,    \* bytes the peer still means to send on the held stream
    given,       \* the FcpMessage the peer's bytes are the rendering of, as {m} or {}
    config,      \* main: the FcpConfig handed to parse_arguments
    args,        \* main: the command line handed to parse_arguments, a Vec<String>
    arguments,   \* main: the FcpArguments parse_arguments returned, as {a} or {}
    main_pc,     \* where main is: "none" when the library is used without it
    error,       \* the error::Error being formatted with Display, as {e} or {}
    frames,      \* how many calls of Display::fmt are on the stack
    fmt_pc       \* where the formatting is: "none", "start", "in_fmt", "overflow"

connVars == <<stream, dropped, pc, op, client_name, rbuf, line, message, io, last, prev,
              connectCalled, handshaken, live, opened, inbuf, net, shut, peerTodo,
              given>>
mainVars == <<config, args, arguments, main_pc>>
fmtVars == <<error, frames, fmt_pc>>

vars == <<connVars, mainVars, fmtVars>>

sessionVars == <<stream, dropped>>
recvVars == <<rbuf, line, message>>
wireVars == <<inbuf, net, shut, peerTodo>>
ghostVars == <<connectCalled, handshaken>>

----
\* Bounds of the model.

\* connect opens at most MaxStreams streams in the life of one FcpConnection.
MaxStreams == 2
\* The peer's bytes arrive Segment at a time, or all that is left at once.
Segment == 16
\* A write takes all the bytes, or only the first ShortWrite of them.
ShortWrite == 5
\* Codec inputs: names, keys and values of at most MaxLen characters.
MaxLen == 1
\* Codec inputs: messages of at most MaxFields fields.
MaxFields == 2
\* The calls of Display::fmt the thread's stack has room for.
StackFrames == 40

\* std::io::BufReader's default capacity, the most one read takes from the stream.
BufCapacity == 8192

----
\* Strings of the program.

NL == "\n"
EQ == "="

ClientHello == <<"C","l","i","e","n","t","H","e","l","l","o">>
NodeHello == <<"N","o","d","e","H","e","l","l","o">>
EndMessage == <<"E","n","d","M","e","s","s","a","g","e">>
NameKey == <<"N","a","m","e">>
ExpectedVersionKey == <<"E","x","p","e","c","t","e","d","V","e","r","s","i","o","n">>
Version20 == <<"2",".","0">>

TestClient == <<"T","e","s","t","C","l","i","e","n","t">>

----
\* FcpMessage (lib.rs 221-267).

\* HashMap::new()
EmptyFields == [k \in {} |-> <<>>]

\* FcpMessage::create
create(name) == [name |-> name, fields |-> EmptyFields]

\* An add_field that keeps the value a present key has.
AddFieldKeepingFirst(m, key, value) ==
    [m EXCEPT !.fields = [k \in (DOMAIN m.fields) \cup {key} |->
                              IF k \in DOMAIN m.fields THEN m.fields[k] ELSE value]]

\* FcpMessage::add_field: HashMap::insert overwrites the value of a present key.
add_field(m, key, value) ==
    [m EXCEPT !.fields = [k \in (DOMAIN m.fields) \cup {key} |->
                              IF k = key THEN value ELSE m.fields[k]]]

\* The orders in which HashMap::iter may yield the keys: every one of them.
IterOrders(fields) ==
    LET keys == DOMAIN fields
    IN  {o \in [1..Cardinality(keys) -> keys] :
            \A i, j \in 1..Cardinality(keys) : i # j => o[i] # o[j]}

\* The loop of to_field_set: format!("{}={}", key, value) and '\n', per field.
RECURSIVE field_lines(_, _)
field_lines(fields, order) ==
    IF order = <<>> THEN <<>>
    ELSE Head(order) \o <<EQ>> \o fields[Head(order)] \o <<NL>>
            \o field_lines(fields, Tail(order))

\* A to_field_set that leaves the EndMessage line out.
ToFieldSetUnterminated(m, order) ==
    m.name \o <<NL>> \o field_lines(m.fields, order)

\* FcpMessage::to_field_set, the HashMap iterating in the given order.
to_field_set(m, order) ==
    m.name \o <<NL>> \o field_lines(m.fields, order) \o EndMessage \o <<NL>>

\* Every string to_field_set may return for m.
Renderings(m) == {to_field_set(m, o) : o \in IterOrders(m.fields)}

----
\* String helpers of the decoding loop (lib.rs 193-208).

\* str::find(char): the index of the first occurrence, 0 for None.
find(s, c) ==
    IF \E i \in 1..Len(s) : s[i] = c
    THEN CHOOSE i \in 1..Len(s) : s[i] = c /\ \A j \in 1..(i - 1) : s[j] # c
    ELSE 0

\* str::trim_end_matches(char): every trailing occurrence is removed.
RECURSIVE trim_end_matches(_, _)
trim_end_matches(s, c) ==
    IF s # <<>> /\ s[Len(s)] = c
    THEN trim_end_matches(SubSeq(s, 1, Len(s) - 1), c)
    ELSE s

\* The key of a field line: &line[..equal_sign]
field_key(l, equal_sign) == SubSeq(l, 1, equal_sign - 1)

\* A decoder that forgets trim_end_matches on the value.
FieldValueUntrimmed(l, equal_sign) == SubSeq(l, equal_sign + 1, Len(l))

\* The value of a field line: line[(equal_sign + 1)..].trim_end_matches('\n')
field_value(l, equal_sign) == trim_end_matches(SubSeq(l, equal_sign + 1, Len(l)), NL)

\* The name of a message from its first line: name.trim_end_matches('\n')
message_name(l) == trim_end_matches(l, NL)

\* A comparison that ignores the case of the letters of "NodeHello".
Lower(c) == IF c = "N" THEN "n" ELSE IF c = "H" THEN "h" ELSE c
LowerCase(s) == [i \in 1..Len(s) |-> Lower(s[i])]
HandshakeRejectsIgnoringCase(node_hello) ==
    LowerCase(node_hello.name) # LowerCase(NodeHello)

\* connect's test of the reply: node_hello.name != "NodeHello"
handshake_rejects(node_hello) == node_hello.name # NodeHello

\* A guard with its arms swapped.
NotConnectedSwapped(s) == s # {}

\* send_message's and recv_message's match on self.stream: the None arm.
not_connected(s) == s = {}

\* The ClientHello connect builds (lib.rs 121-123).
client_hello(name) ==
    add_field(add_field(create(ClientHello), NameKey, name), ExpectedVersionKey, Version20)

----
\* The TcpStream and the peer behind it.

\* What the peer sends on a connection: the replies of the spec's scenarios, a
\* rejected and a wrongly cased reply, an empty first line, and two messages
\* back to back, the second with a value holding '=' and a repeated key. The
\* peer may close at any point, also before it has sent anything.
NodeHelloBare == NodeHello \o <<NL>> \o EndMessage \o <<NL>>
NodeHelloFull ==
    NodeHello \o <<NL>>
        \o <<"V","e","r","s","i","o","n","=","2",".","0",NL>>
        \o <<"N","o","d","e","=","T","e","s","t","N","o","d","e",NL>>
        \o EndMessage \o <<NL>>
ErrorReply == <<"E","r","r","o","r",NL>> \o EndMessage \o <<NL>>
LowerReply == <<"n","o","d","e","h","e","l","l","o",NL>> \o EndMessage \o <<NL>>
EmptyNameReply == <<NL>> \o EndMessage \o <<NL>>
TwoMessages ==
    NodeHelloFull
        \o <<"P","o","n","g",NL,"k","=","a","=","b",NL,"k","=","c",NL,"E","n","d",NL>>

PeerScripts == {NodeHelloBare, ErrorReply, LowerReply, EmptyNameReply, TwoMessages}

\* The messages the caller sends.
Ping == add_field(create(<<"P","i","n","g">>), <<"k">>, <<"v">>)
Bare == create(<<"B">>)
SentMessages == {Ping, Bare}

\* The client names the caller connects with (main.rs 26).
ClientNames == {TestClient}

\* How many of the peer's remaining bytes arrive at once.
SendSizes(todo) == {n \in 1..Len(todo) : n = Len(todo) \/ n = Segment}

\* The counts a write of `bytes` may return: all of them, or fewer.
WriteCounts(bytes) == {n \in 1..Len(bytes) : n = Len(bytes) \/ n = ShortWrite}

\* Write::write on the TcpStream: an error on a connection that was reset or
\* shut down, otherwise Ok(n) with the socket taking the first n bytes.
stream_write(bytes) ==
    IF net = "reset" \/ shut
    THEN {[ok |-> FALSE, n |-> 0]}
    ELSE {[ok |-> TRUE, n |-> k] : k \in WriteCounts(bytes)}

\* TcpStream::shutdown(Both): Ok on a connection in use; on one that was reset,
\* or was shut down before, Ok or an error, depending on the operating system.
stream_shutdown == IF net = "reset" \/ shut THEN {TRUE, FALSE} ELSE {TRUE}

\* One stream operation, as the io of a call records it: for a write, the
\* bytes the socket took.
Event(ev, ok, data) == [ev |-> ev, ok |-> ok, data |-> data]

\* The reads of one stretch are recorded as one event.
WithRead(log) ==
    IF log # <<>> /\ log[Len(log)].ev = "read" THEN log
    ELSE Append(log, Event("read", TRUE, <<>>))

\* A completed call: the method, its argument, its result, the message it
\* returned or compared (Some as {m}), its stream operations, the last line
\* recv_message read, and the bytes its BufReader was dropped with.
Call(method, arg, res, msg, log, term, rest) ==
    [op |-> method, arg |-> arg, res |-> res, msg |-> msg, io |-> log,
     term |-> term, lost |-> rest]

NoCall == Call("none", <<>>, "Ok", {}, <<>>, <<>>, <<>>)

HasNL(s) == \E i \in 1..Len(s) : s[i] = NL

----
\* The crate used as a library: no main has parsed a command line, and no
\* error is being formatted.
LibraryOnly ==
    /\ config = [fcp_hostname |-> {}, fcp_port |-> {}]
    /\ args = <<>>
    /\ arguments = {}
    /\ main_pc = "none"
    /\ error = {}
    /\ frames = 0
    /\ fmt_pc = "none"

----
\* The state after FcpConnection::create / FcpConnection::default (lib.rs 70-86).

Created ==
    /\ stream = {}
    /\ dropped = FALSE
    /\ pc = "idle"
    /\ op = "none"
    /\ client_name = <<>>
    /\ rbuf = <<>>
    /\ line = <<>>
    /\ message = create(<<>>)
    /\ io = <<>>
    /\ last = NoCall
    /\ prev = [op |-> "none", res |-> "Ok"]
    /\ connectCalled = FALSE
    /\ handshaken = FALSE
    /\ live = {}
    /\ opened = 0
    /\ inbuf = <<>>
    /\ net = "open"
    /\ shut = FALSE
    /\ peerTodo = <<>>
    /\ given = {}

Init == Created /\ LibraryOnly

\* The caller may start a call.
CanCall == pc = "idle" /\ ~dropped

\* A call returns: it becomes the last call.
Returns(call) ==
    /\ last' = call
    /\ prev' = [op |-> last.op, res |-> last.res]
    /\ handshaken' = (handshaken \/ (call.op = "connect" /\ call.res = "Ok"))

----
\* FcpConnection::connect (lib.rs 117-131).

\* A connect that assigns self.stream before it looks at the result of
\* TcpStream::connect.
ConnectFailStoring(name) ==
    /\ CanCall
    /\ connectCalled' = TRUE
    /\ stream' = {opened + 1}
    /\ Returns(Call("connect", name, "IoError", {}, <<Event("open", FALSE, <<>>)>>,
                    <<>>, <<>>))
    /\ UNCHANGED <<dropped, pc, op, client_name, recvVars, io, live, opened,
                   wireVars, given, mainVars, fmtVars>>

\* TcpStream::connect fails: the ? returns the error, self.stream is not assigned.
ConnectFail(name) ==
    /\ CanCall
    /\ connectCalled' = TRUE
    /\ Returns(Call("connect", name, "IoError", {}, <<Event("open", FALSE, <<>>)>>,
                    <<>>, <<>>))
    /\ UNCHANGED <<sessionVars, pc, op, client_name, recvVars, io, live, opened,
                   wireVars, given, mainVars, fmtVars>>

\* TcpStream::connect succeeds and the stream is stored; the assignment drops
\* the stream held before, which closes it.
ConnectOpen(name, script) ==
    /\ CanCall
    /\ opened < MaxStreams
    /\ connectCalled' = TRUE
    /\ opened' = opened + 1
    /\ stream' = {opened'}
    /\ live' = (live \ stream) \cup {opened'}
    /\ inbuf' = <<>>
    /\ net' = "open"
    /\ shut' = FALSE
    /\ peerTodo' = script
    /\ pc' = "connect_send"
    /\ op' = "connect"
    /\ client_name' = name
    /\ io' = <<Event("open", TRUE, <<>>)>>
    /\ UNCHANGED <<dropped, recvVars, last, prev, handshaken, given, mainVars, fmtVars>>

\* self.send_message(client_hello)?, then the BufReader of recv_message.
ConnectSend ==
    /\ pc = "connect_send"
    /\ \E bytes \in Renderings(client_hello(client_name)) :
       \E w \in stream_write(bytes) :
          LET log == Append(io, Event("write", w.ok, SubSeq(bytes, 1, w.n)))
          IN  IF w.ok
              THEN /\ pc' = "recv_name"
                   /\ io' = log
                   /\ UNCHANGED <<op, client_name, last, prev, handshaken>>
              ELSE /\ pc' = "idle"
                   /\ op' = "none"
                   /\ client_name' = <<>>
                   /\ io' = <<>>
                   /\ Returns(Call("connect", client_name, "IoError", {}, log,
                                   <<>>, <<>>))
    /\ UNCHANGED <<sessionVars, recvVars, connectCalled, live, opened, wireVars,
                   given, mainVars, fmtVars>>

----
\* A send_message that gives the stream up when the write fails.
SendMessageForgetting(m) ==
    /\ CanCall
    /\ IF not_connected(stream)
       THEN /\ Returns(Call("send", m, "NotConnected", {}, <<>>, <<>>, <<>>))
            /\ UNCHANGED <<stream, live>>
       ELSE \E bytes \in Renderings(m) :
            \E w \in stream_write(bytes) :
               /\ Returns(Call("send", m, IF w.ok THEN "Ok" ELSE "IoError", {},
                               <<Event("write", w.ok, SubSeq(bytes, 1, w.n))>>,
                               <<>>, <<>>))
               /\ stream' = IF w.ok THEN stream ELSE {}
               /\ live' = IF w.ok THEN live ELSE live \ stream
    /\ UNCHANGED <<dropped, pc, op, client_name, recvVars, io, connectCalled,
                   opened, wireVars, given, mainVars, fmtVars>>

\* FcpConnection::send_message (lib.rs 161-171): stream.write's count is dropped.
SendMessage(m) ==
    /\ CanCall
    /\ IF not_connected(stream)
       THEN Returns(Call("send", m, "NotConnected", {}, <<>>, <<>>, <<>>))
       ELSE \E bytes \in Renderings(m) :
            \E w \in stream_write(bytes) :
               Returns(Call("send", m, IF w.ok THEN "Ok" ELSE "IoError", {},
                            <<Event("write", w.ok, SubSeq(bytes, 1, w.n))>>,
                            <<>>, <<>>))
    /\ UNCHANGED <<sessionVars, pc, op, client_name, recvVars, io, connectCalled, live,
                   opened, wireVars, given, mainVars, fmtVars>>

----
\* FcpConnection::recv_message (lib.rs 189-213).

\* The match on self.stream; on Some, name and the BufReader are created.
RecvMessage ==
    /\ CanCall
    /\ IF not_connected(stream)
       THEN /\ Returns(Call("recv", <<>>, "NotConnected", {}, <<>>, <<>>, <<>>))
            /\ UNCHANGED <<pc, op>>
       ELSE /\ pc' = "recv_name"
            /\ op' = "recv"
            /\ UNCHANGED <<last, prev, handshaken>>
    /\ UNCHANGED <<sessionVars, client_name, recvVars, io, connectCalled, live, opened,
                   wireVars, given, mainVars, fmtVars>>

\* recv_message returns res (to connect, when connect called it), having read
\* the line `term` last: the BufReader is dropped with the bytes `rest` it
\* still holds. connect returns an error as it is, and compares the name of a
\* message it got.
RecvReturn(res, msg, term, rest, log) ==
    /\ pc' = "idle"
    /\ op' = "none"
    /\ client_name' = <<>>
    /\ rbuf' = <<>>
    /\ line' = <<>>
    /\ message' = create(<<>>)
    /\ io' = <<>>
    /\ Returns(IF op = "connect"
               THEN Call("connect", client_name,
                         IF res # "Ok" THEN res
                         ELSE IF \E m \in msg : handshake_rejects(m) THEN "ProtocolError"
                         ELSE "Ok",
                         msg, log, term, rest)
               ELSE Call("recv", <<>>, res, msg, log, term, rest))

\* read_line has returned Ok with the line l, the BufReader keeping `rest`.
\* The first line is the name; a later line with '=' is a field, and one
\* without ends the loop.
LineDone(l, rest, log) ==
    IF pc = "recv_name"
    THEN /\ message' = create(message_name(l))
         /\ pc' = "recv_field"
         /\ line' = <<>>
         /\ rbuf' = rest
         /\ io' = log
         /\ UNCHANGED <<op, client_name, last, prev, handshaken>>
    ELSE LET equal_sign == find(l, EQ)
         IN  IF equal_sign # 0
             THEN /\ message' = add_field(message, field_key(l, equal_sign),
                                          field_value(l, equal_sign))
                  /\ line' = <<>>
                  /\ rbuf' = rest
                  /\ io' = log
                  /\ UNCHANGED <<pc, op, client_name, last, prev, handshaken>>
             ELSE RecvReturn("Ok", {message}, l, rest, log)

InRecv == pc \in {"recv_name", "recv_field"}

\* read_line: the buffer holds a newline, the line ends with it; no read.
RecvLine ==
    /\ InRecv
    /\ HasNL(rbuf)
    /\ LET nl == find(rbuf, NL)
       IN  LineDone(line \o SubSeq(rbuf, 1, nl), SubSeq(rbuf, nl + 1, Len(rbuf)), io)
    /\ UNCHANGED <<sessionVars, connectCalled, live, opened, wireVars, given, mainVars, fmtVars>>

\* read_line: the buffer holds no newline; it is appended to the line and the
\* BufReader reads what has arrived, up to its capacity.
RecvFill ==
    /\ InRecv
    /\ ~HasNL(rbuf)
    /\ net # "reset"
    /\ inbuf # <<>>
    /\ LET n == IF Len(inbuf) < BufCapacity THEN Len(inbuf) ELSE BufCapacity
       IN  /\ rbuf' = SubSeq(inbuf, 1, n)
           /\ inbuf' = SubSeq(inbuf, n + 1, Len(inbuf))
    /\ line' = line \o rbuf
    /\ io' = WithRead(io)
    /\ UNCHANGED <<sessionVars, pc, op, client_name, message, last, prev, ghostVars, live, opened, net, shut, peerTodo, given, mainVars, fmtVars>>

\* read_line: the read returns 0 bytes (the peer closed, or the stream was shut
\* down, and nothing is left): Ok with what the line holds so far.
RecvEof ==
    /\ InRecv
    /\ ~HasNL(rbuf)
    /\ net # "reset"
    /\ inbuf = <<>>
    /\ (net = "peer_closed" \/ shut)
    /\ LineDone(line \o rbuf, <<>>, WithRead(io))
    /\ UNCHANGED <<sessionVars, connectCalled, live, opened, wireVars, given, mainVars, fmtVars>>

\* read_line: the read fails; to_fcp_error()? returns IoError.
RecvError ==
    /\ InRecv
    /\ ~HasNL(rbuf)
    /\ net = "reset"
    /\ RecvReturn("IoError", {}, line \o rbuf, <<>>, WithRead(io))
    /\ UNCHANGED <<sessionVars, connectCalled, live, opened, wireVars, given, mainVars, fmtVars>>

----
\* FcpConnection::disconnect (lib.rs 141-146): self.stream is left as it is.
Disconnect ==
    /\ CanCall
    /\ IF stream = {}
       THEN /\ Returns(Call("disconnect", <<>>, "Ok", {}, <<>>, <<>>, <<>>))
            /\ UNCHANGED shut
       ELSE \E ok \in stream_shutdown :
               /\ shut' = (shut \/ ok)
               /\ Returns(Call("disconnect", <<>>, IF ok THEN "Ok" ELSE "IoError", {},
                               <<Event("shutdown", ok, <<>>)>>, <<>>, <<>>))
    /\ UNCHANGED <<sessionVars, pc, op, client_name, recvVars, io, connectCalled, live,
                   opened, inbuf, net, peerTodo, given, mainVars, fmtVars>>

\* A drop that shuts the stream down but leaves it open behind it.
DropLeaking ==
    /\ pc = "idle"
    /\ ~dropped
    /\ dropped' = TRUE
    /\ stream' = {}
    /\ IF stream = {}
       THEN /\ Returns(Call("drop", <<>>, "Ok", {}, <<>>, <<>>, <<>>))
            /\ UNCHANGED shut
       ELSE \E ok \in stream_shutdown :
               /\ shut' = (shut \/ ok)
               /\ Returns(Call("drop", <<>>, "Ok", {}, <<Event("shutdown", ok, <<>>)>>,
                               <<>>, <<>>))
    /\ UNCHANGED <<pc, op, client_name, recvVars, io, connectCalled, live, opened,
                   inbuf, net, peerTodo, given, mainVars, fmtVars>>

\* Drop for FcpConnection (lib.rs 89-95): disconnect's result is discarded,
\* then the fields are dropped, which closes a held stream.
Drop ==
    /\ pc = "idle"
    /\ ~dropped
    /\ dropped' = TRUE
    /\ stream' = {}
    /\ live' = live \ stream
    /\ IF stream = {}
       THEN /\ Returns(Call("drop", <<>>, "Ok", {}, <<>>, <<>>, <<>>))
            /\ UNCHANGED shut
       ELSE \E ok \in stream_shutdown :
               /\ shut' = (shut \/ ok)
               /\ Returns(Call("drop", <<>>, "Ok", {}, <<Event("shutdown", ok, <<>>)>>,
                               <<>>, <<>>))
    /\ UNCHANGED <<pc, op, client_name, recvVars, io, connectCalled, opened,
                   inbuf, net, peerTodo, given, mainVars, fmtVars>>

----
\* The peer, while the connection holds a stream.

PeerSend ==
    /\ stream # {}
    /\ net = "open"
    /\ ~shut
    /\ \E n \in SendSizes(peerTodo) :
          /\ inbuf' = inbuf \o SubSeq(peerTodo, 1, n)
          /\ peerTodo' = SubSeq(peerTodo, n + 1, Len(peerTodo))
    /\ UNCHANGED <<sessionVars, pc, op, client_name, recvVars, io, last, prev, ghostVars, live, opened, net, shut, given, mainVars, fmtVars>>

\* The peer closes its side: reads return what has arrived, then 0.
PeerClose ==
    /\ stream # {}
    /\ net = "open"
    /\ net' = "peer_closed"
    /\ UNCHANGED <<sessionVars, pc, op, client_name, recvVars, io, last, prev, ghostVars, live, opened, inbuf, shut, peerTodo, given, mainVars, fmtVars>>

\* The connection is reset: reads and writes fail from now on.
PeerReset ==
    /\ stream # {}
    /\ net # "reset"
    /\ net' = "reset"
    /\ inbuf' = <<>>
    /\ UNCHANGED <<sessionVars, pc, op, client_name, recvVars, io, last, prev, ghostVars, live, opened, shut, peerTodo, given, mainVars, fmtVars>>

----
Next ==
    \/ \E name \in ClientNames : ConnectFail(name)
    \/ \E name \in ClientNames, script \in PeerScripts : ConnectOpen(name, script)
    \/ ConnectSend
    \/ \E m \in SentMessages : SendMessage(m)
    \/ RecvMessage
    \/ RecvLine
    \/ RecvFill
    \/ RecvEof
    \/ RecvError
    \/ Disconnect
    \/ Drop
    \/ PeerSend
    \/ PeerClose
    \/ PeerReset

Spec == Init /\ [][Next]_vars

----
\* The codec on its own: a connection whose handshake was answered with a
\* bare NodeHello, and a peer that then sends one rendering of a message m.

NameChars == {"n", "="}
KeyChars == {"a"}
ValueChars == {"v", "w"}

Strings(chars, n) == UNION {[1..k -> chars] : k \in 0..n}

FieldMaps ==
    UNION {[keys -> Strings(ValueChars, MaxLen)] :
              keys \in {ks \in SUBSET Strings(KeyChars, MaxLen) : Cardinality(ks) <= MaxFields}}

CodecMessages ==
    {[name |-> n, fields |-> f] : n \in Strings(NameChars, MaxLen), f \in FieldMaps}

InitCodec ==
    /\ stream = {1}
    /\ dropped = FALSE
    /\ pc = "idle"
    /\ op = "none"
    /\ client_name = <<>>
    /\ rbuf = <<>>
    /\ line = <<>>
    /\ message = create(<<>>)
    /\ io = <<>>
    /\ \E hello \in Renderings(client_hello(TestClient)) :
          last = Call("connect", TestClient, "Ok", {create(NodeHello)},
                      <<Event("open", TRUE, <<>>), Event("write", TRUE, hello),
                        Event("read", TRUE, <<>>)>>,
                      EndMessage \o <<NL>>, <<>>)
    /\ prev = [op |-> "none", res |-> "Ok"]
    /\ connectCalled = TRUE
    /\ handshaken = TRUE
    /\ live = {1}
    /\ opened = 1
    /\ inbuf = <<>>
    /\ net = "open"
    /\ shut = FALSE
    /\ \E m \in CodecMessages :
          /\ given = {m}
          /\ peerTodo \in Renderings(m)
    /\ LibraryOnly

NextCodec ==
    \/ RecvMessage
    \/ RecvLine
    \/ RecvFill
    \/ RecvEof
    \/ PeerSend
    \/ PeerClose

SpecCodec == InitCodec /\ [][NextCodec]_vars

----
\* The connection under fair scheduling: the calling thread is blocking and
\* runs whenever its read or write can complete, and the network delivers
\* what the peer has written while the connection is open. The peer is not
\* bound to close or to reset the connection.
Fairness ==
    /\ WF_vars(ConnectSend)
    /\ WF_vars(RecvLine)
    /\ WF_vars(RecvFill)
    /\ WF_vars(RecvEof)
    /\ WF_vars(RecvError)
    /\ WF_vars(PeerSend)

SpecLive == Spec /\ Fairness

----
\* The decoder on its own: the peer of a connected FcpConnection sends the
\* lines of one message, made of a name, field lines key=value whose key has
\* no '=' (the value may), and a last line without '='. `given` is the
\* message of those parts: the name, and for each key the value of the last
\* line with that key.
Version == <<"V","e","r","s","i","o","n">>
Node == <<"N","o","d","e">>
TestNode == <<"T","e","s","t","N","o","d","e">>
End == <<"E","n","d">>

Part(key, value) == [key |-> key, value |-> value]

RawParts ==
    {Part(k, v) : k \in {<<>>, <<"a">>},
                  v \in {<<>>, <<"v">>, <<"w">>, <<"v", EQ, "w">>, <<EQ>>}}

RawInputs ==
    {[name |-> n, parts |-> ps, term |-> t] :
        n \in {<<>>, <<"n">>},
        ps \in UNION {[1..k -> RawParts] : k \in 0..MaxFields},
        t \in {EndMessage, <<>>}}
    \cup {[name |-> NodeHello,
           parts |-> <<Part(Version, Version20), Part(Node, TestNode)>>,
           term |-> EndMessage],
          [name |-> <<"P","o","n","g">>,
           parts |-> <<Part(<<"k">>, <<"a", EQ, "b">>), Part(<<"k">>, <<"c">>)>>,
           term |-> End]}

RECURSIVE PartLines(_)
PartLines(ps) ==
    IF ps = <<>> THEN <<>>
    ELSE Head(ps).key \o <<EQ>> \o Head(ps).value \o <<NL>> \o PartLines(Tail(ps))

RawBytes(in) == in.name \o <<NL>> \o PartLines(in.parts) \o in.term \o <<NL>>

PartsMessage(in) ==
    [name |-> in.name,
     fields |-> [k \in {in.parts[i].key : i \in DOMAIN in.parts} |->
                    LET i == CHOOSE i \in DOMAIN in.parts :
                                /\ in.parts[i].key = k
                                /\ \A j \in DOMAIN in.parts :
                                      in.parts[j].key = k => j <= i
                    IN  in.parts[i].value]]

InitDecode ==
    /\ stream = {1}
    /\ dropped = FALSE
    /\ pc = "idle"
    /\ op = "none"
    /\ client_name = <<>>
    /\ rbuf = <<>>
    /\ line = <<>>
    /\ message = create(<<>>)
    /\ io = <<>>
    /\ \E hello \in Renderings(client_hello(TestClient)) :
          last = Call("connect", TestClient, "Ok", {create(NodeHello)},
                      <<Event("open", TRUE, <<>>), Event("write", TRUE, hello),
                        Event("read", TRUE, <<>>)>>,
                      EndMessage \o <<NL>>, <<>>)
    /\ prev = [op |-> "none", res |-> "Ok"]
    /\ connectCalled = TRUE
    /\ handshaken = TRUE
    /\ live = {1}
    /\ opened = 1
    /\ inbuf = <<>>
    /\ net = "open"
    /\ shut = FALSE
    /\ \E in \in RawInputs :
          /\ given = {PartsMessage(in)}
          /\ peerTodo = RawBytes(in)
    /\ LibraryOnly

SpecDecode == InitDecode /\ [][NextCodec]_vars

----
\* The encoder on its own: a caller of a connected FcpConnection sends the
\* message the state was drawn for, or a ClientHello of its own making.
NextEncode ==
    \/ \E m \in given \cup {client_hello(TestClient)} : SendMessage(m)
    \/ PeerReset

SpecEncode == InitCodec /\ [][NextEncode]_vars

----
\* main and parse_arguments (src/src/main.rs).

Localhost == <<"l","o","c","a","l","h","o","s","t">>
\* config.fcp_port.unwrap_or(9481)
DefaultPort == 9481
\* .parse().unwrap_or(9481)
FallbackPort == 9481
\* The largest u16.
U16Max == 65535

ShortHost == <<"-","h">>
LongHost == <<"-","-","f","c","p","-","h","o","s","t">>
ShortPort == <<"-","p">>
LongPort == <<"-","-","f","c","p","-","p","o","r","t">>
ShortVerbose == <<"-","v">>
LongVerbose == <<"-","-","v","e","r","b","o","s","e">>
ShortQuiet == <<"-","q">>
LongQuiet == <<"-","-","q","u","i","e","t">>
TestCommand == <<"t","e","s","t">>

Digits == <<"0","1","2","3","4","5","6","7","8","9">>
IsDigit(c) == \E i \in 1..Len(Digits) : Digits[i] = c
DigitValue(c) == (CHOOSE i \in 1..Len(Digits) : Digits[i] = c) - 1

\* u16::to_string: the decimal digits, no sign, no leading zero.
RECURSIVE to_string(_)
to_string(n) ==
    IF n < 10 THEN <<Digits[n + 1]>>
    ELSE to_string(n \div 10) \o <<Digits[(n % 10) + 1]>>

\* The number a string of decimal digits denotes.
RECURSIVE Number(_)
Number(s) ==
    IF s = <<>> THEN 0
    ELSE Number(SubSeq(s, 1, Len(s) - 1)) * 10 + DigitValue(s[Len(s)])

\* str::parse::<u16>: an optional '+', then one or more digits, the number at
\* most 65535; Some as {n}, an Err as {}.
parse_u16(s) ==
    LET digits == IF s # <<>> /\ s[1] = "+" THEN Tail(s) ELSE s
    IN  IF /\ digits # <<>>
           /\ \A i \in 1..Len(digits) : IsDigit(digits[i])
           /\ Number(digits) <= U16Max
        THEN {Number(digits)}
        ELSE {}

\* Option::unwrap_or
unwrap_or(option, default) == IF option = {} THEN default ELSE CHOOSE x \in option : TRUE

\* clap's ArgMatches for the App of parse_arguments: the value of an option
\* that was given, the flags, the subcommand; error when clap rejects the
\* command line (and ends the process).
NoMatches ==
    [hostname |-> {}, port |-> {}, verbose |-> FALSE, quiet |-> FALSE,
     subcommand |-> {}, error |-> FALSE]

\* App::get_matches_from with NoBinaryName: an option takes the next string
\* as its value and may be given once; verbose and quiet conflict; "test" is
\* the subcommand, which takes no arguments; anything else is rejected.
RECURSIVE get_matches_from(_, _)
get_matches_from(a, m) ==
    IF a = <<>> \/ m.error THEN m
    ELSE LET t == Head(a)
             rejected == [m EXCEPT !.error = TRUE]
         IN  IF m.subcommand # {} THEN rejected
             ELSE IF t \in {ShortHost, LongHost}
             THEN IF Len(a) < 2 \/ m.hostname # {} THEN rejected
                  ELSE get_matches_from(Tail(Tail(a)), [m EXCEPT !.hostname = {a[2]}])
             ELSE IF t \in {ShortPort, LongPort}
             THEN IF Len(a) < 2 \/ m.port # {} THEN rejected
                  ELSE get_matches_from(Tail(Tail(a)), [m EXCEPT !.port = {a[2]}])
             ELSE IF t \in {ShortVerbose, LongVerbose}
             THEN IF m.verbose \/ m.quiet THEN rejected
                  ELSE get_matches_from(Tail(a), [m EXCEPT !.verbose = TRUE])
             ELSE IF t \in {ShortQuiet, LongQuiet}
             THEN IF m.verbose \/ m.quiet THEN rejected
                  ELSE get_matches_from(Tail(a), [m EXCEPT !.quiet = TRUE])
             ELSE IF t = TestCommand
             THEN get_matches_from(Tail(a), [m EXCEPT !.subcommand = {"test"}])
             ELSE rejected

\* A parse_arguments that lets the configuration overrule the command line.
ParseArgumentsConfigFirst(cfg, a) ==
    LET matches == get_matches_from(a, NoMatches)
        host_value == unwrap_or(cfg.fcp_hostname, unwrap_or(matches.hostname, Localhost))
        port_value == IF cfg.fcp_port # {} THEN to_string(unwrap_or(cfg.fcp_port, DefaultPort))
                      ELSE unwrap_or(matches.port, to_string(DefaultPort))
    IN  [hostname |-> host_value,
         port |-> unwrap_or(parse_u16(port_value), FallbackPort),
         command |-> IF matches.subcommand = {"test"} THEN {"Test"} ELSE {},
         verbose |-> matches.verbose,
         quiet |-> matches.quiet]

\* parse_arguments (main.rs 53-115): the configuration's values, or localhost
\* and 9481, are the default_value of the two options; the port's string is
\* parsed, 9481 taking the place of one that does not parse.
parse_arguments(cfg, a) ==
    LET fcp_hostname == unwrap_or(cfg.fcp_hostname, Localhost)
        fcp_port == to_string(unwrap_or(cfg.fcp_port, DefaultPort))
        matches == get_matches_from(a, NoMatches)
        host_value == unwrap_or(matches.hostname, fcp_hostname)
        port_value == unwrap_or(matches.port, fcp_port)
    IN  [hostname |-> host_value,
         port |-> unwrap_or(parse_u16(port_value), FallbackPort),
         command |-> IF matches.subcommand = {"test"} THEN {"Test"} ELSE {},
         verbose |-> matches.verbose,
         quiet |-> matches.quiet]

\* The inputs: a configuration with or without a host and a port, and command
\* lines that give a host, a port (a number, a number too large for u16, or
\* no number), a flag or two, the subcommand, or a string clap rejects.
ConfigHost == <<"n","o","d","e">>
ConfigPorts == {1234}
ArgHost == <<"h","o","s","t","n","a","m","e",".","t","e","s","t">>
Port12345 == <<"1","2","3","4","5">>
Port70000 == <<"7","0","0","0","0">>
PortNoNumber == <<"a","b","c">>
PortTexts == {Port12345, Port70000, PortNoNumber}

Configs ==
    {[fcp_hostname |-> h, fcp_port |-> p] :
        h \in {{}, {ConfigHost}}, p \in {{}} \cup {{n} : n \in ConfigPorts}}

HostArgs == {<<>>, <<ShortHost, ArgHost>>, <<LongHost, ArgHost>>}
PortArgs == {<<>>} \cup {<<o, t>> : o \in {ShortPort, LongPort}, t \in PortTexts}
FlagArgs == {<<>>, <<ShortVerbose>>, <<LongVerbose>>, <<ShortQuiet>>, <<LongQuiet>>,
             <<ShortVerbose, ShortQuiet>>}
CommandArgs == {<<>>, <<TestCommand>>, <<TestCommand, ShortVerbose>>, <<ArgHost>>}

ArgVectors ==
    {h \o p \o f \o c : h \in HostArgs, p \in PortArgs, f \in FlagArgs, c \in CommandArgs}
    \cup {p \o h \o f \o c : h \in HostArgs, p \in PortArgs, f \in FlagArgs, c \in CommandArgs}

InitMain ==
    /\ Created
    /\ config \in Configs
    /\ args \in ArgVectors
    /\ arguments = {}
    /\ main_pc = "start"
    /\ error = {}
    /\ frames = 0
    /\ fmt_pc = "none"

\* main calls parse_arguments, and clap accepts the command line.
ParseArguments ==
    /\ main_pc = "start"
    /\ ~get_matches_from(args, NoMatches).error
    /\ arguments' = {parse_arguments(config, args)}
    /\ main_pc' = "parsed"
    /\ UNCHANGED <<connVars, config, args, fmtVars>>

\* clap rejects the command line: it prints the error and ends the process.
ClapExit ==
    /\ main_pc = "start"
    /\ get_matches_from(args, NoMatches).error
    /\ main_pc' = "exit"
    /\ UNCHANGED <<connVars, config, args, arguments, fmtVars>>

\* main (main.rs 17-20): without a command there is nothing to run.
MainNoCommand ==
    /\ main_pc = "parsed"
    /\ \E a \in arguments : a.command = {}
    /\ main_pc' = "done"
    /\ UNCHANGED <<connVars, config, args, arguments, fmtVars>>

\* main (main.rs 22): the FcpConnection is created for the host and the port.
MainCreate ==
    /\ main_pc = "parsed"
    /\ \E a \in arguments : a.command # {}
    /\ main_pc' = "created"
    /\ UNCHANGED <<connVars, config, args, arguments, fmtVars>>

NextMain ==
    \/ ParseArguments
    \/ ClapExit
    \/ MainNoCommand
    \/ MainCreate

SpecMain == InitMain /\ [][NextMain]_vars

----
\* impl Display for Error (lib.rs 37-41).

\* The variants of error::Error.
Errors == {"IoError", "NotConnected", "ProtocolError"}

InitFmt ==
    /\ Created
    /\ config = [fcp_hostname |-> {}, fcp_port |-> {}]
    /\ args = <<>>
    /\ arguments = {}
    /\ main_pc = "none"
    /\ error \in {{e} : e \in Errors}
    /\ frames = 0
    /\ fmt_pc = "start"

\* A caller formats the error with "{}" or to_string: Display::fmt is entered.
FormatError ==
    /\ fmt_pc = "start"
    /\ frames' = 1
    /\ fmt_pc' = "in_fmt"
    /\ UNCHANGED <<connVars, mainVars, error>>

\* The body of fmt, write!(f, "{}", self), formats self with Display: fmt is
\* entered again, for the same error, before the call above it has returned.
FmtWrite ==
    /\ fmt_pc = "in_fmt"
    /\ frames < StackFrames
    /\ frames' = frames + 1
    /\ UNCHANGED <<connVars, mainVars, error, fmt_pc>>

\* The stack has no room for another call: the process is aborted.
StackOverflow ==
    /\ fmt_pc = "in_fmt"
    /\ frames = StackFrames
    /\ fmt_pc' = "overflow"
    /\ UNCHANGED <<connVars, mainVars, error, frames>>

NextFmt ==
    \/ FormatError
    \/ FmtWrite
    \/ StackOverflow

SpecFmt == InitFmt /\ [][NextFmt]_vars

----
\* The claims.

\* C1: on a connection on which connect was never called, every send_message
\* and every recv_message returns NotConnected, and no call opens a stream or
\* reads or writes a byte.
C1_NotConnectedGuard ==
    ~connectCalled =>
        /\ last.op \in {"send", "recv"} => last.res = "NotConnected"
        /\ last.io = <<>>
        /\ io = <<>>
        /\ pc = "idle"
        /\ opened = 0
        /\ live = {}
        /\ stream = {}

C1_Witness ==
    /\ ~connectCalled
    /\ prev.op = "send"
    /\ prev.res = "NotConnected"
    /\ last.op = "recv"
    /\ last.res = "NotConnected"

\* C2: after disconnect has returned Ok on a connection whose connect had
\* returned Ok, the connection holds no stream, and a send_message or
\* recv_message that follows it returns NotConnected.
C2_DisconnectReleases ==
    /\ (handshaken /\ pc = "idle" /\ last.op = "disconnect" /\ last.res = "Ok")
          => stream = {}
    /\ (handshaken /\ prev.op = "disconnect" /\ prev.res = "Ok"
            /\ last.op \in {"send", "recv"})
          => last.res = "NotConnected"

\* C3: the second of two disconnect calls in succession returns Ok and does
\* no shutdown, and the connection holds no stream after it; a disconnect on
\* a connection that was never connected returns Ok and does nothing.
C3_DisconnectIdempotent ==
    /\ (pc = "idle" /\ last.op = "disconnect" /\ prev.op = "disconnect")
          => (last.res = "Ok" /\ last.io = <<>> /\ stream = {})
    /\ (last.op = "disconnect" /\ ~connectCalled)
          => (last.res = "Ok" /\ last.io = <<>> /\ stream = {})

\* C4: a connect that has received a message returns ProtocolError exactly
\* when the name of the message is not "NodeHello", and Ok exactly when it is.
C4_HandshakeRejection ==
    (last.op = "connect" /\ last.msg # {}) =>
        \A m \in last.msg :
            /\ last.res = "ProtocolError" <=> m.name # NodeHello
            /\ last.res = "Ok" <=> m.name = NodeHello

C4_Witness ==
    /\ prev.op = "connect"
    /\ prev.res = "Ok"
    /\ last.op = "connect"
    /\ last.res = "ProtocolError"
    /\ \E m \in last.msg : m.name = <<"n","o","d","e","h","e","l","l","o">>

\* C5: a connect that returns Ok has opened the stream, then written one whole
\* ClientHello with Name and ExpectedVersion=2.0, then read one message named
\* NodeHello, and has done nothing after; the connection holds the stream.
C5_HandshakeOrdering ==
    (last.op = "connect" /\ last.res = "Ok") =>
        /\ Len(last.io) = 3
        /\ last.io[1] = Event("open", TRUE, <<>>)
        /\ last.io[2].ev = "write"
        /\ last.io[2].ok
        /\ last.io[2].data \in Renderings(client_hello(last.arg))
        /\ last.io[3].ev = "read"
        /\ \E m \in last.msg : m.name = NodeHello
        /\ stream # {}

\* C6 as stated: the connection holds a stream only once a connect has
\* returned Ok.
C6_ConnectedOnlyAfterHandshake == (pc = "idle" /\ stream # {}) => handshaken

\* C6 amended: send_message or recv_message is accepted only once a connect
\* has opened a stream, whether or not its handshake then succeeded; a connect
\* whose open fails leaves the connection without a stream it did not have.
C6_ConnectedOnlyAfterOpen ==
    /\ stream # {} => (connectCalled /\ opened >= 1)
    /\ (last.op \in {"send", "recv"} /\ last.res # "NotConnected") => opened >= 1
    /\ (pc \in {"recv_name", "recv_field"}) => opened >= 1
    /\ (last.op = "connect" /\ last.io[1].ok) => stream # {}

C6_Witness ==
    /\ ~handshaken
    /\ prev.op = "connect"
    /\ prev.res = "ProtocolError"
    /\ last.op = "send"
    /\ last.res = "Ok"

\* C7: the first recv_message after the handshake, when it has read every
\* byte of a rendering of m, returns m: the same name and the same fields,
\* whatever the order of the field lines.
C7_RoundTrip ==
    (last.op = "recv" /\ last.res = "Ok" /\ prev.op = "connect"
        /\ peerTodo = <<>> /\ inbuf = <<>>)
    => last.msg = given

C7_Witness ==
    /\ last.op = "recv"
    /\ last.res = "Ok"
    /\ prev.op = "connect"
    /\ peerTodo = <<>>
    /\ inbuf = <<>>
    /\ last.msg = given
    /\ \E m \in given : Cardinality(DOMAIN m.fields) >= 2 /\ m.name = <<"=">>

\* C8: a recv_message that returns Ok has read a terminator line: a line
\* without '=' that ends with a newline.
C8_NoPartialMessage ==
    (last.op = "recv" /\ last.res = "Ok") =>
        /\ last.term # <<>>
        /\ last.term[Len(last.term)] = NL
        /\ find(last.term, EQ) = 0

\* C9: a send_message that returns Ok has written one whole rendering of its
\* message in its one write.
C9_WholeMessageWritten ==
    (last.op = "send" /\ last.res = "Ok") =>
        /\ Len(last.io) = 1
        /\ last.io[1].ev = "write"
        /\ last.io[1].data \in Renderings(last.arg)

\* C10: a connect whose TcpStream::connect fails on a connection that holds no
\* stream returns IoError, leaves the connection without a stream, and writes
\* and reads nothing.
C10_OpenFailure ==
    [][(stream = {} /\ pc = "idle" /\ <<last, prev>>' # <<last, prev>>
            /\ last'.op = "connect" /\ ~last'.io[1].ok)
        => /\ last'.res = "IoError"
           /\ Len(last'.io) = 1
           /\ stream' = {}
           /\ live' = live
           /\ opened' = opened
           /\ pc' = "idle"
           /\ inbuf' = inbuf]_vars

C10_Witness ==
    /\ last.op = "connect"
    /\ ~last.io[1].ok
    /\ last.res = "IoError"
    /\ stream = {}
    /\ opened = 0

----
\* C11: a failure after the stream was opened changes nothing of the
\* connection. A step in which send_message or recv_message returns an
\* IoError, or connect returns an error after TcpStream::connect succeeded,
\* leaves the connection holding the stream it held, open, and the failed
\* call made at most one open and one write (nothing was tried again); and
\* the held stream changes in no step but an opening connect or the drop.
EventCount(log, ev) == Cardinality({i \in DOMAIN log : log[i].ev = ev})

FailedAfterOpen(c) ==
    /\ c.res \in {"IoError", "ProtocolError"}
    /\ c.op \in {"send", "recv", "connect"}
    /\ c.op = "connect" => c.io[1].ok

C11_FailureKeepsStream ==
    [][/\ (<<last, prev>>' # <<last, prev>> /\ FailedAfterOpen(last')) =>
             /\ stream' = stream
             /\ stream' # {}
             /\ live' = live
             /\ ~dropped'
             /\ pc' = "idle"
             /\ EventCount(last'.io, "open") <= 1
             /\ EventCount(last'.io, "write") <= 1
       /\ stream' # stream => (pc' = "connect_send" \/ dropped')]_vars

\* A recv_message has failed on the stream that a failed handshake left, and
\* the connection holds it still.
C11_Witness ==
    /\ pc = "idle"
    /\ ~dropped
    /\ stream # {}
    /\ live = stream
    /\ last.op = "recv"
    /\ last.res = "IoError"
    /\ prev.op = "connect"
    /\ prev.res = "ProtocolError"

----
\* C12: every message has a non-empty name. No message that recv_message has
\* returned, to its caller or to connect, after reading a whole message up to
\* the newline of its last line, has the empty string as its name.
C12_NameNeverEmpty ==
    (/\ last.op \in {"recv", "connect"}
     /\ last.term # <<>>
     /\ last.term[Len(last.term)] = NL)
    => \A m \in last.msg : m.name # <<>>

----
\* C13: when the FcpConnection goes out of scope, in whatever state, the step
\* calls disconnect (one shutdown of the held stream, none without a stream),
\* reports nothing whether or not the shutdown failed, leaves the result of
\* the call before it as it was, and closes the held stream: no stream the
\* connection opened is open afterwards, and none is ever opened again.
C13_DropReleases ==
    [][/\ (dropped' /\ ~dropped) =>
             /\ stream' = {}
             /\ live' = {}
             /\ last'.op = "drop"
             /\ last'.res = "Ok"
             /\ prev' = [op |-> last.op, res |-> last.res]
             /\ IF stream = {}
                THEN last'.io = <<>>
                ELSE /\ Len(last'.io) = 1
                     /\ last'.io[1].ev = "shutdown"
       /\ dropped => (dropped' /\ live' = {} /\ stream' = {})]_vars

\* The connection was dropped after a failed handshake on a stream that was
\* then reset: the shutdown failed, and the stream is closed all the same.
C13_Witness ==
    /\ dropped
    /\ live = {}
    /\ stream = {}
    /\ last.op = "drop"
    /\ last.res = "Ok"
    /\ last.io = <<Event("shutdown", FALSE, <<>>)>>
    /\ prev.op = "connect"
    /\ prev.res = "ProtocolError"

----
\* C14: to_field_set returns the name and one newline, then for every field
\* exactly one line key=value, each key once and no other line, the lines in
\* some order, then the line EndMessage; nothing is escaped. Checked on the
\* bytes of every send_message whose write took all of them.
RECURSIVE SplitLines(_)
SplitLines(b) ==
    IF b = <<>> THEN <<>>
    ELSE LET nl == find(b, NL)
         IN  IF nl = 0 THEN <<b>>
             ELSE <<SubSeq(b, 1, nl - 1)>> \o SplitLines(SubSeq(b, nl + 1, Len(b)))

WroteAll(c) ==
    /\ c.op = "send"
    /\ c.res = "Ok"
    /\ Len(c.io[1].data) # ShortWrite

C14_EncodeExact ==
    WroteAll(last) =>
        LET b == last.io[1].data
            ls == SplitLines(b)
            m == last.arg
            n == Cardinality(DOMAIN m.fields)
        IN  /\ b[Len(b)] = NL
            /\ Len(ls) = n + 2
            /\ ls[1] = m.name
            /\ ls[n + 2] = EndMessage
            /\ \A k \in DOMAIN m.fields :
                  Cardinality({i \in 2..(n + 1) :
                                  ls[i] = k \o <<EQ>> \o m.fields[k]}) = 1

\* A ClientHello with Name=TestClient and ExpectedVersion=2.0 was sent whole:
\* four lines, the two field lines between the name and EndMessage.
C14_Witness ==
    /\ WroteAll(last)
    /\ last.arg = client_hello(TestClient)
    /\ LET ls == SplitLines(last.io[1].data)
       IN  /\ Len(ls) = 4
           /\ ls[1] = ClientHello
           /\ {ls[2], ls[3]} = {NameKey \o <<EQ>> \o TestClient,
                                ExpectedVersionKey \o <<EQ>> \o Version20}
           /\ ls[4] = EndMessage

----
\* C15: parse_arguments takes a host and a port from the command line before
\* the configuration, and from the configuration before the defaults
\* localhost and 9481; an empty command line with an empty configuration
\* gives localhost, 9481, no command, verbose and quiet false; giving only
\* one of host and port leaves the other as it would be without.
HostGiven == {args[i + 1] : i \in {j \in 1..(Len(args) - 1) : args[j] \in {ShortHost, LongHost}}}
PortGiven == {args[i + 1] : i \in {j \in 1..(Len(args) - 1) : args[j] \in {ShortPort, LongPort}}}

HostPrecedence(a) ==
    a.hostname = IF HostGiven # {} THEN CHOOSE h \in HostGiven : TRUE
                 ELSE IF config.fcp_hostname # {} THEN CHOOSE h \in config.fcp_hostname : TRUE
                 ELSE Localhost

ConfiguredPort == IF config.fcp_port # {} THEN CHOOSE n \in config.fcp_port : TRUE ELSE 9481

EmptyCase(a) ==
    (args = <<>> /\ config = [fcp_hostname |-> {}, fcp_port |-> {}]) =>
        a = [hostname |-> Localhost, port |-> 9481, command |-> {},
             verbose |-> FALSE, quiet |-> FALSE]

\* As claimed: whatever port string the command line gives is the port.
C15_CommandLineWins ==
    \A a \in arguments :
        /\ HostPrecedence(a)
        /\ IF PortGiven # {} THEN PortGiven = {to_string(a.port)}
           ELSE a.port = ConfiguredPort
        /\ EmptyCase(a)

\* As the code has it: a port string that is no u16 gives 9481, whatever the
\* configuration says.
C15_ParsedPortWins ==
    \A a \in arguments :
        /\ HostPrecedence(a)
        /\ IF PortGiven = {Port12345} THEN a.port = 12345
           ELSE IF PortGiven # {} THEN a.port = 9481
           ELSE a.port = ConfiguredPort
        /\ EmptyCase(a)

\* The command line gave the port only, the configuration both: the port is
\* the command line's and the host the configuration's.
C15_Witness ==
    /\ main_pc = "parsed"
    /\ config = [fcp_hostname |-> {ConfigHost}, fcp_port |-> {1234}]
    /\ args = <<LongPort, Port12345>>
    /\ arguments = {[hostname |-> ConfigHost, port |-> 12345, command |-> {},
                     verbose |-> FALSE, quiet |-> FALSE]}

----
\* C16: in decoding, the key of a line with '=' is the text before the first
\* '=' and the value all that follows it, less the newline; a value with '='
\* in it is kept whole and a repeated key keeps its last value; the first
\* line without '=' ends the message, is consumed and is not stored. When the
\* first recv_message after the handshake has returned Ok and the peer's
\* lines are all read, the message is the one of the parts the lines were
\* made of, the last line read has no '=', and no byte is left over.
C16_DecodeFields ==
    (/\ pc = "idle"
     /\ last.op = "recv"
     /\ last.res = "Ok"
     /\ prev.op = "connect"
     /\ peerTodo = <<>>
     /\ inbuf = <<>>)
    => /\ last.msg = given
       /\ \A i \in 1..Len(last.term) : last.term[i] # EQ
       /\ last.term # <<>>
       /\ last.term[Len(last.term)] = NL
       /\ last.lost = <<>>

\* The input NodeHello / Version=2.0 / Node=TestNode / EndMessage was decoded.
C16_Witness ==
    /\ pc = "idle"
    /\ last.op = "recv"
    /\ last.res = "Ok"
    /\ prev.op = "connect"
    /\ peerTodo = <<>>
    /\ inbuf = <<>>
    /\ last.msg = {add_field(add_field(create(NodeHello), Version, Version20),
                             Node, TestNode)}
    /\ last.term = EndMessage \o <<NL>>
    /\ last.lost = <<>>

----
\* C17: recv_message blocks, and returns when a message is there. On a stream
\* that is open and free of errors a receive returns only on a whole line
\* without '=' (not before the peer has sent one); and a recv_message for
\* which the peer's bytes since the message returned before hold, or will
\* hold, a whole message (a line, then a line without '=') returns in the end.
HasMessage(b) ==
    \E i, j \in 1..Len(b) :
        /\ i < j
        /\ b[i] = NL
        /\ b[j] = NL
        /\ \A k \in (i + 1)..(j - 1) : b[k] \notin {EQ, NL}

ReturnsOnTerminator ==
    (InRecv /\ pc' = "idle" /\ net = "open" /\ ~shut) =>
        /\ last'.term # <<>>
        /\ last'.term[Len(last'.term)] = NL
        /\ \A i \in 1..Len(last'.term) : last'.term[i] # EQ

C17_ReceiveReturns ==
    /\ [][ReturnsOnTerminator]_vars
    /\ (/\ op = "recv"
        /\ InRecv
        /\ HasMessage(last.lost \o line \o rbuf \o inbuf \o peerTodo))
       ~> (pc = "idle")

----
\* C18: consecutive receives keep the peer's byte stream: messages written
\* back to back are returned one per call, in order, so no call of
\* recv_message (that of connect included) that returned a message has taken
\* from the stream, and thrown away, bytes the peer sent after that message's
\* last line.
C18_NoByteDiscarded ==
    (last.op \in {"connect", "recv"} /\ last.msg # {}) => last.lost = <<>>

----
\* C19: the connection holds at most one stream, and every stream it opened
\* is the one it holds or is closed; a connect on a connection that holds a
\* stream opens a new one, which is then the one held, closes the one held
\* before, and sends exactly one ClientHello, whole, as the first message on
\* the new stream.
C19_OneStreamPerSession ==
    /\ Cardinality(stream) <= 1
    /\ live \subseteq stream
    /\ (/\ pc = "idle"
        /\ ~dropped
        /\ opened > 1
        /\ last.op = "connect"
        /\ last.io[1].ok
        /\ Len(last.io) > 1
        /\ last.io[2].ok)
       => /\ stream = {opened}
          /\ live = {opened}
          /\ last.io[2].ev = "write"
          /\ last.io[2].data \in Renderings(client_hello(last.arg))
          /\ EventCount(last.io, "write") = 1

\* The same without the content of the write: what holds of the streams.
C19_StreamsHeldOrClosed ==
    /\ Cardinality(stream) <= 1
    /\ live \subseteq stream
    /\ (pc = "idle" /\ ~dropped /\ opened > 1 /\ last.op = "connect" /\ last.io[1].ok)
       => /\ stream = {opened}
          /\ live = {opened}
          /\ EventCount(last.io, "write") = 1
          /\ last.io[2].ev = "write"

----
\* C20: formatting an Error (IoError, NotConnected, ProtocolError) with
\* Display terminates and yields a text: fmt does not call itself, so never
\* more than one call of it is on the stack, and the stack never overflows.
C20_DisplayTerminates ==
    /\ frames <= 1
    /\ fmt_pc # "overflow"

====
